---- MODULE Spec2Model ----
(***************************************************************************)
(* PersistenceService of trufos: an in-memory tree of collection, folders  *)
(* and requests mapped onto one directory per object, with a draft overlay *)
(* (~request.json, ~body.txt) and the idToPathMap path index.              *)
(***************************************************************************)
EXTENDS Integers, Sequences, FiniteSets, TLC

(***************************************************************************)
(* Bounds of the model.                                                    *)
(***************************************************************************)
\* identifiers ever handed out (uuidv4 is modelled by a counter)
MaxIds == 10
\* operations of one behaviour
MaxSteps == 4
\* operations in a behaviour with objects the caller creates
MaxNewSteps == 6
\* objects of the tree
MaxTree == 5
\* children of the collection of a tree that is saved and loaded back
MaxChildren == 2
\* longest title given to sanitizeTitle on its own
MaxTitleLen == 3
\* applications of sanitizeTitle in a row
MaxApplications == 2

(***************************************************************************)
(* Values.  A title and a directory name are sequences of characters, a    *)
(* path is a sequence of directory names.                                  *)
(***************************************************************************)
NoPath == <<>>
NoId == 0
NoText == "undefined"

Titles == { <<"a">>, <<"A", "!">>, <<"b">> }
Data == {0, 1}
Texts == {"x", "y"}

\* the directory the collection lives in, and the collection's directory
BaseDir == << <<"t">> >>
COLLECTION_DIR == << <<"t">>, <<"c">> >>

TEXT_BODY_FILE_NAME == "body.txt"
DRAFT_TEXT_BODY_FILE_NAME == "~body.txt"

(***************************************************************************)
(* Partial functions.                                                      *)
(***************************************************************************)
Put(f, k, v) == [x \in (DOMAIN f) \cup {k} |-> IF x = k THEN v ELSE f[x]]

Drop(f, K) == [x \in (DOMAIN f) \ K |-> f[x]]

Has(f, k) == k \in DOMAIN f

(***************************************************************************)
(* sanitizeTitle: toLowerCase, whitespace to '-', strip all but [a-z0-9-]. *)
(***************************************************************************)
Whitespace == {" "}

AllowedChars == {"a", "b", "0", "-"}

LowerChar(c) == CASE c = "A" -> "a" [] c = "B" -> "b" [] OTHER -> c

toLowerCase(t) == [i \in 1..Len(t) |-> LowerChar(t[i])]

replaceWhitespace(t) == [i \in 1..Len(t) |-> IF t[i] \in Whitespace THEN "-" ELSE t[i]]

stripDisallowed(t) == SelectSeq(t, LAMBDA c : c \in AllowedChars)

\* sanitizeTitle without its last replace
sanitizeKeepAll(title) == replaceWhitespace(toLowerCase(title))

sanitizeTitle(title) == stripDisallowed(replaceWhitespace(toLowerCase(title)))

(***************************************************************************)
(* node:path on normalized absolute paths.                                 *)
(***************************************************************************)
\* path.join(dir, name); joining the empty name yields dir itself
pathJoin(dir, name) == IF name = <<>> THEN dir ELSE Append(dir, name)

pathDirname(p) == SubSeq(p, 1, Len(p) - 1)

pathBasename(p) == p[Len(p)]

IsPrefix(p, q) == Len(p) <= Len(q) /\ SubSeq(q, 1, Len(p)) = p

Rebase(q, old, new) == new \o SubSeq(q, Len(old) + 1, Len(q))

(***************************************************************************)
(* The file system.  disk maps every existing directory to its files:      *)
(* info (info file name -> contents) and body (body file name -> text).    *)
(***************************************************************************)
EmptyDir == [info |-> <<>>, body |-> <<>>]

existsDir(disk, p) == p \in DOMAIN disk

existsInfo(disk, p, name) == p \in DOMAIN disk /\ name \in DOMAIN disk[p].info

existsBody(disk, p, name) == p \in DOMAIN disk /\ name \in DOMAIN disk[p].body

Below(disk, p) == {q \in DOMAIN disk : IsPrefix(p, q)}

IsEmptyDir(disk, p) ==
    /\ Below(disk, p) = {p}
    /\ DOMAIN disk[p].info = {}
    /\ DOMAIN disk[p].body = {}

\* fs.mkdir (not recursive): the parent must exist, the directory must not
mkdirOk(disk, p) == p # NoPath /\ ~existsDir(disk, p) /\ existsDir(disk, pathDirname(p))

mkdir(disk, p) == Put(disk, p, EmptyDir)

\* fs.rename of a directory: ENOENT without the source or the target's parent,
\* EINVAL into itself, ENOTEMPTY onto a non-empty directory
renameOk(disk, old, new) ==
    /\ old # NoPath /\ new # NoPath
    /\ existsDir(disk, old)
    /\ \/ old = new
       \/ /\ ~IsPrefix(old, new)
          /\ existsDir(disk, pathDirname(new))
          /\ existsDir(disk, new) => (IsEmptyDir(disk, new) /\ ~IsPrefix(new, old))

renameDir(disk, old, new) ==
    IF old = new THEN disk
    ELSE LET moved == Below(disk, old)
             kept == (DOMAIN disk) \ (moved \cup {new})
             target == kept \cup {Rebase(q, old, new) : q \in moved}
         IN [q \in target |->
                IF IsPrefix(new, q) THEN disk[Rebase(q, new, old)] ELSE disk[q]]

\* fs.rm(p, {recursive: true}): ENOENT when p does not exist
rmOk(disk, p) == p # NoPath /\ existsDir(disk, p)

rm(disk, p) == Drop(disk, Below(disk, p))

writeInfo(disk, p, name, contents) ==
    [disk EXCEPT ![p] = [@ EXCEPT !.info = Put(@, name, contents)]]

unlinkInfo(disk, p, name) ==
    [disk EXCEPT ![p] = [@ EXCEPT !.info = Drop(@, {name})]]

writeBody(disk, p, name, text) ==
    [disk EXCEPT ![p] = [@ EXCEPT !.body = Put(@, name, text)]]

unlinkBody(disk, p, name) ==
    [disk EXCEPT ![p] = [@ EXCEPT !.body = Drop(@, {name})]]

\* where each object's directory lives on disk: follows the renames and
\* removals of the directory the object's info file was written to
moveHome(home, old, new) ==
    [i \in DOMAIN home |->
        IF IsPrefix(old, home[i]) THEN Rebase(home[i], old, new) ELSE home[i]]

dropHome(home, p) == Drop(home, {i \in DOMAIN home : IsPrefix(p, home[i])})

(***************************************************************************)
(* The program state.                                                      *)
(***************************************************************************)
VARIABLES
    objs,               \* the RufusObjects in memory, by identifier
    idToPathMap,        \* PersistenceService.idToPathMap
    disk,               \* the file system below BaseDir
    home,               \* identifier -> directory its info file lives in
    nextId,             \* the next identifier uuidv4 hands out
    currentCollection,  \* EnvironmentService.currentCollection
    last,               \* the last operation, its arguments, outcome and pre-state;
                        \* out is the text a read returned, <<>> when absent
    budget,             \* operations still to come
    inflight            \* the calls that are suspended at an await, by method

vars == <<objs, idToPathMap, disk, home, nextId, currentCollection, last, budget, inflight>>

\* no call of the method is in flight
NoCall == [pc |-> "none"]

\* the part of the state the service's methods read and write
Cur == [objs |-> objs, idToPathMap |-> idToPathMap, disk |-> disk,
        home |-> home, nextId |-> nextId, err |-> "", ret |-> NoId, list |-> <<>>,
        out |-> <<>>]

Failed(s) == s.err # ""

Throw(s, e) == [s EXCEPT !.err = e]

isCollection(o) == o.type = "collection"

isFolder(o) == o.type = "folder"

isRequest(o) == o.type = "request"

NewObject(type, title, parentId) ==
    [type |-> type, title |-> title, parentId |-> parentId, children |-> <<>>,
     draft |-> FALSE, data |-> 0,
     bodyType |-> IF type = "request" THEN "text" ELSE "none",
     text |-> NoText,
     dirPath |-> IF type = "collection" THEN COLLECTION_DIR ELSE NoPath]

\* the persistable fields: everything but id, parentId, children, draft and
\* the text of the body
toInfoFile(o) == [title |-> o.title, data |-> o.data, bodyType |-> o.bodyType]

InfoFileName(type) ==
    CASE type = "collection" -> "collection.json"
      [] type = "folder" -> "folder.json"
      [] type = "request" -> "request.json"

DraftInfoFileName(type) ==
    CASE type = "collection" -> "~collection.json"
      [] type = "folder" -> "~folder.json"
      [] type = "request" -> "~request.json"

getDirName(o) == sanitizeTitle(o.title)

\* NoPath stands for the TypeError of path.join(undefined, ...)
getDirPath(s, id) ==
    LET o == s.objs[id] IN
    IF isCollection(o) THEN o.dirPath
    ELSE IF Has(s.idToPathMap, id) THEN s.idToPathMap[id]
    ELSE IF Has(s.idToPathMap, o.parentId)
         THEN pathJoin(s.idToPathMap[o.parentId], getDirName(o))
         ELSE NoPath

\* saveInfoFile refusing a directory another identifier is recorded for
saveInfoFileGuarded(s, id, dirPath, fileName) ==
    LET o == s.objs[id] IN
    IF ~isCollection(o) /\ o.parentId = NoId
    THEN Throw(s, "Object must have a parent")
    ELSE IF \E other \in DOMAIN s.idToPathMap : other # id /\ s.idToPathMap[other] = dirPath
    THEN Throw(s, "EEXIST")
    ELSE IF ~existsDir(s.disk, dirPath) /\ ~mkdirOk(s.disk, dirPath)
    THEN Throw(s, "ENOENT")
    ELSE LET d1 == IF existsDir(s.disk, dirPath) THEN s.disk ELSE mkdir(s.disk, dirPath)
         IN [s EXCEPT !.disk = writeInfo(d1, dirPath, fileName, toInfoFile(o)),
                      !.idToPathMap = Put(@, id, dirPath),
                      !.home = Put(@, id, dirPath)]

saveInfoFile(s, id, dirPath, fileName) ==
    LET o == s.objs[id] IN
    IF ~isCollection(o) /\ o.parentId = NoId
    THEN Throw(s, "Object must have a parent")
    ELSE IF ~existsDir(s.disk, dirPath) /\ ~mkdirOk(s.disk, dirPath)
    THEN Throw(s, "ENOENT")
    ELSE LET d1 == IF existsDir(s.disk, dirPath) THEN s.disk ELSE mkdir(s.disk, dirPath)
         IN [s EXCEPT !.disk = writeInfo(d1, dirPath, fileName, toInfoFile(o)),
                      !.idToPathMap = Put(@, id, dirPath),
                      !.home = Put(@, id, dirPath)]

\* saveRequest without the draft file name: the info file is always the
\* canonical one
saveRequestCanonical(s, id, textBody) ==
    LET o == s.objs[id]
        dirPath == getDirPath(s, id)
        s1 == saveInfoFile(s, id, dirPath, InfoFileName(o.type))
        fileName == IF o.draft THEN DRAFT_TEXT_BODY_FILE_NAME ELSE TEXT_BODY_FILE_NAME
    IN  IF dirPath = NoPath THEN Throw(s, "TypeError")
        ELSE IF Failed(s1) THEN s1
        ELSE IF textBody # NoText
        THEN [s1 EXCEPT !.objs[id].bodyType = "text",
                        !.objs[id].text = NoText,
                        !.disk = writeBody(@, dirPath, fileName, textBody)]
        ELSE IF existsBody(s1.disk, dirPath, TEXT_BODY_FILE_NAME)
        THEN [s1 EXCEPT !.disk = unlinkBody(@, dirPath, TEXT_BODY_FILE_NAME)]
        ELSE s1

saveRequest(s, id, textBody) ==
    LET o == s.objs[id]
        dirPath == getDirPath(s, id)
        infoFileName == IF o.draft THEN DraftInfoFileName(o.type) ELSE InfoFileName(o.type)
        s1 == saveInfoFile(s, id, dirPath, infoFileName)
        fileName == IF o.draft THEN DRAFT_TEXT_BODY_FILE_NAME ELSE TEXT_BODY_FILE_NAME
    IN  IF dirPath = NoPath THEN Throw(s, "TypeError")
        ELSE IF Failed(s1) THEN s1
        ELSE IF textBody # NoText
        THEN [s1 EXCEPT !.objs[id].bodyType = "text",
                        !.objs[id].text = NoText,
                        !.disk = writeBody(@, dirPath, fileName, textBody)]
        ELSE IF existsBody(s1.disk, dirPath, TEXT_BODY_FILE_NAME)
        THEN [s1 EXCEPT !.disk = unlinkBody(@, dirPath, TEXT_BODY_FILE_NAME)]
        ELSE s1

saveCollection(s, id) ==
    saveInfoFile(s, id, getDirPath(s, id), InfoFileName(s.objs[id].type))

saveFolder(s, id) ==
    LET dirPath == getDirPath(s, id) IN
    IF dirPath = NoPath THEN Throw(s, "TypeError")
    ELSE saveInfoFile(s, id, dirPath, InfoFileName(s.objs[id].type))

RECURSIVE saveRecursive(_, _), saveChildren(_, _, _)

\* the loop over object.children, from its i-th child on
saveChildren(s, id, i) ==
    LET kids == s.objs[id].children IN
    IF Failed(s) \/ i > Len(kids) THEN s
    ELSE LET child == kids[i] IN
         IF isRequest(s.objs[child])
         THEN saveChildren(saveRequest(s, child, NoText), id, i + 1)
         ELSE LET s1 == saveFolder(s, child) IN
              IF Failed(s1) THEN s1
              ELSE saveChildren(saveRecursive(s1, child), id, i + 1)

saveRecursive(s, id) ==
    LET s1 == IF isCollection(s.objs[id]) THEN saveCollection(s, id) ELSE s
    IN  IF Failed(s1) THEN s1 ELSE saveChildren(s1, id, 1)

(***************************************************************************)
(* rename and moveChild.                                                   *)
(***************************************************************************)
RECURSIVE updatePathMapRecursively(_, _, _), updatePathMapOfChildren(_, _, _, _)

\* the loop over the children of id, from the i-th child on
updatePathMapOfChildren(s, id, newDirPath, i) ==
    LET kids == s.objs[id].children IN
    IF Failed(s) \/ i > Len(kids) THEN s
    ELSE updatePathMapOfChildren(
             updatePathMapRecursively(s, kids[i], newDirPath), id, newDirPath, i + 1)

\* updatePathMapRecursively recording nothing
updatePathMapOfNothing(s, child, newParentDirPath) == s

\* path.basename(undefined) throws when the child has no entry
updatePathMapRecursively(s, child, newParentDirPath) ==
    IF ~Has(s.idToPathMap, child) THEN Throw(s, "TypeError")
    ELSE LET oldDirPath == s.idToPathMap[child]
             dirName == pathBasename(oldDirPath)
             newDirPath == pathJoin(newParentDirPath, dirName)
             s1 == [s EXCEPT !.idToPathMap = Put(@, child, newDirPath)]
         IN  IF isFolder(s.objs[child])
             THEN updatePathMapOfChildren(s1, child, newDirPath, 1)
             ELSE s1

moveChild(s, child, oldParent, newParent) ==
    LET childDirName == getDirName(s.objs[child])
        oldChildDirPath == getDirPath(s, child)
        newParentDirPath == getDirPath(s, newParent)
        newChildDirPath == pathJoin(newParentDirPath, childDirName)
        filtered == [s.objs EXCEPT ![oldParent].children = SelectSeq(@, LAMBDA c : c # child)]
        pushed == [filtered EXCEPT ![newParent].children = Append(@, child)]
        s1 == [s EXCEPT !.objs = pushed]
    IN  IF oldChildDirPath = NoPath \/ newParentDirPath = NoPath THEN Throw(s, "TypeError")
        ELSE IF ~renameOk(s.disk, oldChildDirPath, newChildDirPath) THEN Throw(s1, "rename")
        ELSE updatePathMapRecursively(
                 [s1 EXCEPT !.disk = renameDir(@, oldChildDirPath, newChildDirPath),
                            !.home = moveHome(@, oldChildDirPath, newChildDirPath)],
                 child, newParentDirPath)

rename(s, id, newTitle) ==
    LET o == s.objs[id]
        oldDirPath == getDirPath(s, id)
        parentDirPath == pathDirname(oldDirPath)
        newDirName == getDirName(o)
        newDirPath == pathJoin(parentDirPath, newDirName)
    IN  IF oldDirPath = NoPath THEN Throw(s, "TypeError")
        ELSE IF ~renameOk(s.disk, oldDirPath, newDirPath) THEN Throw(s, "rename")
        ELSE LET s1 == [s EXCEPT !.disk = renameDir(@, oldDirPath, newDirPath),
                                 !.home = moveHome(@, oldDirPath, newDirPath),
                                 !.objs[id].title = newTitle,
                                 !.idToPathMap = Put(@, id, newDirPath)]
             IN  IF isRequest(o) THEN s1
                 ELSE updatePathMapOfChildren(s1, id, newDirPath, 1)

(***************************************************************************)
(* Loading.                                                                *)
(***************************************************************************)
RECURSIVE SetToSeq(_)

SetToSeq(S) ==
    IF S = {} THEN <<>>
    ELSE LET x == CHOOSE y \in S : TRUE IN <<x>> \o SetToSeq(S \ {x})

\* fs.readdir(parentDirPath): the sub-directories, in the order the file
\* system lists them
readdir(d, parentDirPath) ==
    SetToSeq({q \in DOMAIN d : Len(q) = Len(parentDirPath) + 1 /\ IsPrefix(parentDirPath, q)})

\* loadInfoFile reading the canonical file when it exists
loadInfoFileNameCanonical(d, dirPath, type) ==
    IF existsInfo(d, dirPath, InfoFileName(type))
    THEN InfoFileName(type) ELSE DraftInfoFileName(type)

\* the info file loadInfoFile reads: the draft one when it exists
loadInfoFileName(d, dirPath, type) ==
    IF existsInfo(d, dirPath, DraftInfoFileName(type))
    THEN DraftInfoFileName(type) ELSE InfoFileName(type)

loadInfoFileOk(d, dirPath, type) ==
    existsInfo(d, dirPath, loadInfoFileName(d, dirPath, type))

loadInfoFile(d, dirPath, type) ==
    [contents |-> d[dirPath].info[loadInfoFileName(d, dirPath, type)],
     draft |-> existsInfo(d, dirPath, DraftInfoFileName(type))]

\* Object.assign(infoFileContents, {id, parentId, type, ...})
Loaded(type, parentId, dirPath, info) ==
    [type |-> type, title |-> info.contents.title, parentId |-> parentId,
     children |-> <<>>,
     draft |-> IF type = "request" THEN info.draft ELSE FALSE,
     data |-> info.contents.data, bodyType |-> info.contents.bodyType,
     text |-> NoText,
     dirPath |-> IF type = "collection" THEN dirPath ELSE NoPath]

\* a fresh object with the next identifier, recorded in the path index
Register(s, type, parentId, dirPath) ==
    [s EXCEPT !.objs = Put(@, s.nextId,
                           Loaded(type, parentId, dirPath, loadInfoFile(s.disk, dirPath, type))),
              !.idToPathMap = Put(@, s.nextId, dirPath),
              !.home = Put(@, s.nextId, dirPath),
              !.nextId = @ + 1,
              !.ret = s.nextId]

loadRequest(s, parentId, dirPath) ==
    IF ~loadInfoFileOk(s.disk, dirPath, "request") THEN Throw(s, "ENOENT")
    ELSE Register(s, "request", parentId, dirPath)

RECURSIVE load(_, _, _, _), loadFolder(_, _, _), loadChildren(_, _, _, _)

\* the loop of loadChildren over the listed directories, from the i-th on;
\* the children loaded so far are in s.list
loadChildren(s, parentId, nodes, i) ==
    IF Failed(s) \/ i > Len(nodes) THEN s
    ELSE LET s1 == load([s EXCEPT !.list = <<>>], parentId, nodes[i], "any") IN
         IF Failed(s1) THEN s1
         ELSE loadChildren([s1 EXCEPT !.list = Append(s.list, s1.ret)], parentId, nodes, i + 1)

loadFolder(s, parentId, dirPath) ==
    IF ~loadInfoFileOk(s.disk, dirPath, "folder") THEN Throw(s, "ENOENT")
    ELSE LET s1 == Register(s, "folder", parentId, dirPath)
             id == s1.ret
             s2 == loadChildren([s1 EXCEPT !.list = <<>>], id, readdir(s1.disk, dirPath), 1)
         IN  IF Failed(s2) THEN s2
             ELSE [s2 EXCEPT !.objs[id].children = s2.list, !.ret = id]

load(s, parentId, dirPath, type) ==
    IF \/ type = "folder"
       \/ existsInfo(s.disk, dirPath, "folder.json")
       \/ existsInfo(s.disk, dirPath, "~folder.json")
    THEN loadFolder(s, parentId, dirPath)
    ELSE IF \/ type = "request"
            \/ existsInfo(s.disk, dirPath, "request.json")
            \/ existsInfo(s.disk, dirPath, "~request.json")
    THEN loadRequest(s, parentId, dirPath)
    ELSE Throw(s, "Could not determine type of object")

loadCollection(s, dirPath) ==
    IF ~loadInfoFileOk(s.disk, dirPath, "collection") THEN Throw(s, "ENOENT")
    ELSE LET s1 == Register(s, "collection", NoId, dirPath)
             id == s1.ret
             s2 == loadChildren([s1 EXCEPT !.list = <<>>], id, readdir(s1.disk, dirPath), 1)
         IN  IF Failed(s2) THEN s2
             ELSE [s2 EXCEPT !.objs[id].children = s2.list, !.ret = id]

reload(s, id) ==
    LET o == s.objs[id] IN
    IF isCollection(o) THEN loadCollection(s, o.dirPath)
    ELSE IF getDirPath(s, id) = NoPath THEN Throw(s, "TypeError")
    ELSE load(s, o.parentId, getDirPath(s, id), o.type)

(***************************************************************************)
(* The text body.  s.out is the content of the stream returned, <<>> when  *)
(* nothing is returned.                                                    *)
(***************************************************************************)
\* loadTextBodyOfRequest reading body.txt whatever the draft flag
loadTextBodyCanonical(s, id) ==
    LET o == s.objs[id]
        filePath == getDirPath(s, id)
    IN  IF o.bodyType # "text" THEN s
        ELSE IF o.text # NoText THEN [s EXCEPT !.out = <<o.text>>]
        ELSE IF filePath = NoPath THEN Throw(s, "TypeError")
        ELSE IF existsBody(s.disk, filePath, TEXT_BODY_FILE_NAME)
        THEN [s EXCEPT !.out = <<s.disk[filePath].body[TEXT_BODY_FILE_NAME]>>]
        ELSE s

loadTextBodyOfRequest(s, id) ==
    LET o == s.objs[id]
        fileName == IF o.draft THEN DRAFT_TEXT_BODY_FILE_NAME ELSE TEXT_BODY_FILE_NAME
        dirPath == getDirPath(s, id)
    IN  IF o.bodyType # "text" THEN s
        ELSE IF o.text # NoText THEN [s EXCEPT !.out = <<o.text>>]
        ELSE IF dirPath = NoPath THEN Throw(s, "TypeError")
        ELSE IF existsBody(s.disk, dirPath, fileName)
        THEN [s EXCEPT !.out = <<s.disk[dirPath].body[fileName]>>]
        ELSE s

(***************************************************************************)
(* The draft lifecycle.                                                    *)
(***************************************************************************)
\* undraft without object.draft = false
undraftKeepsFlag(s, id) ==
    LET dirPath == getDirPath(s, id) IN
    IF dirPath = NoPath THEN Throw(s, "TypeError")
    ELSE [s EXCEPT !.ret =
             IF existsInfo(s.disk, dirPath, DraftInfoFileName(s.objs[id].type))
             THEN id ELSE NoId]

\* sets the draft flag to false; s.ret tells whether a draft info file exists
undraft(s, id) ==
    LET s1 == [s EXCEPT !.objs[id].draft = FALSE]
        infoFileName == InfoFileName(s.objs[id].type)
        dirPath == getDirPath(s1, id)
    IN  IF dirPath = NoPath THEN Throw(s1, "TypeError")
        ELSE [s1 EXCEPT !.ret =
                 IF existsInfo(s1.disk, dirPath, DraftInfoFileName(s.objs[id].type))
                 THEN id ELSE NoId]

\* fs.rename of a file onto a (possibly existing) file of the same directory
renameInfo(d, p, from, to) ==
    unlinkInfo(writeInfo(d, p, to, d[p].info[from]), p, from)

renameBody(d, p, from, to) ==
    unlinkBody(writeBody(d, p, to, d[p].body[from]), p, from)

\* saveChanges without the promotion of the draft body file
saveChangesInfoOnly(s, id) ==
    LET s1 == undraft(s, id)
        dirPath == getDirPath(s1, id)
        type == s.objs[id].type
        d1 == renameInfo(s1.disk, dirPath, DraftInfoFileName(type), InfoFileName(type))
    IN  IF Failed(s1) THEN s1
        ELSE IF s1.ret = NoId THEN [s1 EXCEPT !.ret = id]
        ELSE [s1 EXCEPT !.disk = d1, !.ret = id]

saveChanges(s, id) ==
    LET s1 == undraft(s, id)
        dirPath == getDirPath(s1, id)
        type == s.objs[id].type
        d1 == renameInfo(s1.disk, dirPath, DraftInfoFileName(type), InfoFileName(type))
        d2 == IF existsBody(d1, dirPath, DRAFT_TEXT_BODY_FILE_NAME)
              THEN renameBody(d1, dirPath, DRAFT_TEXT_BODY_FILE_NAME, TEXT_BODY_FILE_NAME)
              ELSE IF existsBody(d1, dirPath, TEXT_BODY_FILE_NAME)
              THEN unlinkBody(d1, dirPath, TEXT_BODY_FILE_NAME)
              ELSE d1
    IN  IF Failed(s1) THEN s1
        ELSE IF s1.ret = NoId THEN [s1 EXCEPT !.ret = id]
        ELSE [s1 EXCEPT !.disk = d2, !.ret = id]

\* discardChanges without the removal of the draft body file
discardChangesInfoOnly(s, id) ==
    LET s1 == undraft(s, id)
        dirPath == getDirPath(s1, id)
        type == s.objs[id].type
        d1 == unlinkInfo(s1.disk, dirPath, DraftInfoFileName(type))
    IN  IF Failed(s1) THEN s1
        ELSE IF s1.ret = NoId THEN [s1 EXCEPT !.ret = id]
        ELSE reload([s1 EXCEPT !.disk = d1, !.ret = NoId], id)

discardChanges(s, id) ==
    LET s1 == undraft(s, id)
        dirPath == getDirPath(s1, id)
        type == s.objs[id].type
        d1 == unlinkInfo(s1.disk, dirPath, DraftInfoFileName(type))
        d2 == IF existsBody(d1, dirPath, DRAFT_TEXT_BODY_FILE_NAME)
              THEN unlinkBody(d1, dirPath, DRAFT_TEXT_BODY_FILE_NAME)
              ELSE d1
    IN  IF Failed(s1) THEN s1
        ELSE IF s1.ret = NoId THEN [s1 EXCEPT !.ret = id]
        ELSE reload([s1 EXCEPT !.disk = d2, !.ret = NoId], id)

(***************************************************************************)
(* delete.                                                                 *)
(***************************************************************************)
RECURSIVE deleteDenied(_, _, _), deleteChildren(_, _, _, _)

\* the loop over object.children, from the i-th child on
deleteChildren(s, id, denied, i) ==
    LET kids == s.objs[id].children IN
    IF Failed(s) \/ i > Len(kids) THEN s
    ELSE deleteChildren(deleteDenied(s, kids[i], denied), id, denied, i + 1)

\* delete on a file system that refuses to remove the directories in
\* denied; when fs.rm throws, s.ret names the object it was called for
deleteDenied(s, id, denied) ==
    LET dirPath == getDirPath(s, id)
        s1 == IF isRequest(s.objs[id]) THEN s ELSE deleteChildren(s, id, denied, 1)
        s2 == [s1 EXCEPT !.idToPathMap = Drop(@, {id})]
    IN  IF dirPath = NoPath THEN Throw(s, "TypeError")
        ELSE IF Failed(s1) THEN s1
        ELSE IF ~rmOk(s2.disk, dirPath) THEN [Throw(s2, "ENOENT") EXCEPT !.ret = id]
        ELSE IF dirPath \in denied THEN [Throw(s2, "EPERM") EXCEPT !.ret = id]
        ELSE [s2 EXCEPT !.disk = rm(@, dirPath), !.home = dropHome(@, dirPath)]

delete(s, id) == deleteDenied(s, id, {})

\* the tree below an object, the object included
RECURSIVE Subtree(_, _)

Subtree(os, id) ==
    {id} \cup UNION {Subtree(os, os[id].children[i]) : i \in 1..Len(os[id].children)}

(***************************************************************************)
(* Initial state and operations.                                           *)
(***************************************************************************)
Snapshot == [objs |-> objs, idToPathMap |-> idToPathMap, disk |-> disk, home |-> home]

Call(op, id, from, to, title, text) ==
    [op |-> op, id |-> id, from |-> from, to |-> to, title |-> title, text |-> text]

\* the objects of the tree of the current collection
Tree == IF currentCollection = NoId THEN {} ELSE Subtree(objs, currentCollection)

Requests == {i \in DOMAIN objs : isRequest(objs[i])}

Parents == {i \in Tree : ~isRequest(objs[i])}

\* the state an operation leaves, thrown or not, becomes the next state
Commit(s, call) ==
    /\ budget > 0
    /\ s.nextId <= MaxIds + 1
    /\ objs' = s.objs
    /\ idToPathMap' = s.idToPathMap
    /\ disk' = s.disk
    /\ home' = s.home
    /\ nextId' = s.nextId
    /\ budget' = budget - 1
    /\ UNCHANGED inflight
    /\ last' = [call |-> call, ok |-> ~Failed(s), err |-> s.err, ret |-> s.ret,
                out |-> s.out, pre |-> Snapshot, clean |-> last.clean /\ ~Failed(s)]

Init ==
    /\ objs = <<>>
    /\ idToPathMap = <<>>
    /\ disk = [p \in {BaseDir} |-> EmptyDir]
    /\ home = <<>>
    /\ nextId = 1
    /\ currentCollection = NoId
    /\ inflight = [save |-> NoCall, move |-> NoCall]
    /\ budget = MaxSteps
    /\ last = [call |-> Call("init", NoId, NoId, NoId, <<>>, NoText), ok |-> TRUE,
               err |-> "", ret |-> NoId, out |-> <<>>,
               pre |-> [objs |-> <<>>, idToPathMap |-> <<>>,
                        disk |-> [p \in {BaseDir} |-> EmptyDir], home |-> <<>>],
               clean |-> TRUE]

\* the collection the bootstrap producer hands over: a folder holding a
\* request, and a request next to the folder
generateDefaultCollection ==
    LET c == [NewObject("collection", <<"a">>, NoId) EXCEPT !.children = <<2, 4>>]
        f == [NewObject("folder", <<"a">>, 1) EXCEPT !.children = <<3>>]
        r == NewObject("request", <<"a">>, 2)
        q == NewObject("request", <<"0">>, 1)
    IN  <<c, f, r, q>>

\* EnvironmentService.init, once, at start-up
LoadDefaultCollection ==
    /\ currentCollection = NoId /\ nextId = 1
    /\ LET s == IF existsInfo(disk, COLLECTION_DIR, "collection.json")
                THEN loadCollection(Cur, COLLECTION_DIR)
                ELSE [saveRecursive([Cur EXCEPT !.objs = generateDefaultCollection,
                                                !.nextId = 5], 1)
                      EXCEPT !.ret = 1]
       IN  /\ Commit(s, Call("loadDefaultCollection", NoId, NoId, NoId, <<>>, NoText))
           /\ currentCollection' = IF Failed(s) THEN NoId ELSE s.ret

\* the caller creates an object under a parent of the tree; it is saved later
CreateObject ==
    /\ nextId <= MaxIds
    /\ Cardinality(Tree) < MaxTree
    /\ \E parent \in Parents, type \in {"folder", "request"}, title \in Titles :
          LET os == Put([objs EXCEPT ![parent].children = Append(@, nextId)],
                        nextId, NewObject(type, title, parent))
          IN  /\ Commit([Cur EXCEPT !.objs = os, !.nextId = @ + 1, !.ret = nextId],
                        Call("create", nextId, NoId, parent, title, NoText))
              /\ UNCHANGED currentCollection

\* the caller edits a request: the request becomes a draft with new content
\* and, possibly, an inline body text
EditRequest ==
    \E r \in Requests, text \in {NoText, "x"} :
       /\ Commit([Cur EXCEPT !.objs[r].data = 1 - @, !.objs[r].text = text,
                             !.objs[r].draft = TRUE, !.ret = r],
                 Call("edit", r, NoId, NoId, <<>>, text))
       /\ UNCHANGED currentCollection

SaveRequest ==
    \E r \in Requests, textBody \in Texts \cup {NoText} :
       /\ Commit(saveRequest(Cur, r, textBody), Call("saveRequest", r, NoId, NoId, <<>>, textBody))
       /\ UNCHANGED currentCollection

SaveFolder ==
    \E f \in {i \in DOMAIN objs : isFolder(objs[i])} :
       /\ Commit(saveFolder(Cur, f), Call("saveFolder", f, NoId, NoId, <<>>, NoText))
       /\ UNCHANGED currentCollection

SaveCollection ==
    /\ currentCollection # NoId
    /\ Commit(saveCollection(Cur, currentCollection),
              Call("saveCollection", currentCollection, NoId, NoId, <<>>, NoText))
    /\ UNCHANGED currentCollection

SaveRecursive ==
    \E o \in Parents :
       /\ Commit(saveRecursive(Cur, o), Call("saveRecursive", o, NoId, NoId, <<>>, NoText))
       /\ UNCHANGED currentCollection

Rename ==
    \E o \in Tree, newTitle \in Titles :
       /\ Commit(rename(Cur, o, newTitle), Call("rename", o, NoId, NoId, newTitle, NoText))
       /\ UNCHANGED currentCollection

\* the caller names the parent the child is in, and never a parent inside
\* the moved subtree
MoveChild ==
    \E oldParent \in Parents, newParent \in Parents :
       \E i \in 1..Len(objs[oldParent].children) :
          LET child == objs[oldParent].children[i] IN
          /\ newParent \notin Subtree(objs, child)
          /\ Commit(moveChild(Cur, child, oldParent, newParent),
                    Call("moveChild", child, oldParent, newParent, <<>>, NoText))
          /\ UNCHANGED currentCollection

SaveChanges ==
    \E r \in Requests :
       /\ Commit(saveChanges(Cur, r), Call("saveChanges", r, NoId, NoId, <<>>, NoText))
       /\ UNCHANGED currentCollection

DiscardChanges ==
    \E r \in Requests :
       /\ Commit(discardChanges(Cur, r), Call("discardChanges", r, NoId, NoId, <<>>, NoText))
       /\ UNCHANGED currentCollection

\* after a delete that completed, the caller drops the deleted objects
Forget(s, id) ==
    LET gone == Subtree(s.objs, id)
        kept == [i \in (DOMAIN s.objs) \ gone |->
                    [s.objs[i] EXCEPT !.children = SelectSeq(@, LAMBDA c : c \notin gone)]]
    IN  [s EXCEPT !.objs = kept]

Delete ==
    \E o \in Tree :
       LET s == delete(Cur, o) IN
       /\ Commit(IF Failed(s) THEN s ELSE Forget(s, o),
                 Call("delete", o, NoId, NoId, <<>>, NoText))
       /\ currentCollection' = IF ~Failed(s) /\ o = currentCollection THEN NoId
                               ELSE currentCollection

\* EnvironmentService.changeCollection: the loaded tree replaces the current one
ChangeCollection ==
    /\ currentCollection # NoId
    /\ LET s == loadCollection(Cur, COLLECTION_DIR) IN
       IF Failed(s)
       THEN /\ Commit(s, Call("loadCollection", NoId, NoId, NoId, <<>>, NoText))
            /\ UNCHANGED currentCollection
       ELSE /\ Commit([s EXCEPT !.objs = [i \in Subtree(s.objs, s.ret) |-> s.objs[i]]],
                      Call("loadCollection", NoId, NoId, NoId, <<>>, NoText))
            /\ currentCollection' = s.ret

Next ==
    \/ LoadDefaultCollection
    \/ EditRequest
    \/ SaveRequest
    \/ SaveFolder
    \/ SaveCollection
    \/ SaveRecursive
    \/ Rename
    \/ MoveChild
    \/ SaveChanges
    \/ DiscardChanges
    \/ Delete
    \/ ChangeCollection

\* the operations on the tree the bootstrap producer handed over
Spec == Init /\ [][Next]_vars

\* the life of objects the caller creates next to the objects of the tree
InitNew ==
    /\ objs = <<>>
    /\ idToPathMap = <<>>
    /\ disk = [p \in {BaseDir} |-> EmptyDir]
    /\ home = <<>>
    /\ nextId = 1
    /\ currentCollection = NoId
    /\ inflight = [save |-> NoCall, move |-> NoCall]
    /\ budget = MaxNewSteps
    /\ last = [call |-> Call("init", NoId, NoId, NoId, <<>>, NoText), ok |-> TRUE,
               err |-> "", ret |-> NoId, out |-> <<>>,
               pre |-> [objs |-> <<>>, idToPathMap |-> <<>>,
                        disk |-> [p \in {BaseDir} |-> EmptyDir], home |-> <<>>],
               clean |-> TRUE]

NextNew ==
    \/ LoadDefaultCollection
    \/ CreateObject
    \/ EditRequest
    \/ SaveRequest
    \/ SaveFolder
    \/ SaveChanges
    \/ DiscardChanges

SpecNew == InitNew /\ [][NextNew]_vars

(***************************************************************************)
(* Round trip: a tree X that was never saved is saved with saveRecursive   *)
(* into an empty directory and loaded back with loadCollection.            *)
(***************************************************************************)
\* a request or a folder of X; a folder holds at most one request
RequestShapes ==
    [type : {"request"}, title : Titles, data : Data, draft : BOOLEAN, sub : {<<>>}]

FolderShapes ==
    [type : {"folder"}, title : Titles, data : {0}, draft : {FALSE},
     sub : {<<>>} \cup {<<r>> : r \in RequestShapes}]

ChildShapes == RequestShapes \cup FolderShapes

\* the children of the collection of X: siblings have different titles
ChildLists ==
    {kids \in UNION {[1..n -> ChildShapes] : n \in 0..MaxChildren} :
        \A i, j \in 1..Len(kids) : i # j => kids[i].title # kids[j].title}

FromShape(c, parentId, children) ==
    [NewObject(c.type, c.title, parentId) EXCEPT
        !.data = c.data, !.draft = c.draft, !.children = children]

\* the objects of X: the collection is 1, its i-th child 1 + i, and the
\* request of a folder follows the children of the collection
BuildTree(kids) ==
    LET n == Len(kids)
        nested == {i \in 1..n : kids[i].sub # <<>>}
        subId(i) == 1 + n + Cardinality({j \in nested : j <= i})
        owner(id) == CHOOSE i \in nested : subId(i) = id
    IN  [id \in 1..(1 + n + Cardinality(nested)) |->
            IF id = 1
            THEN [NewObject("collection", <<"a">>, NoId) EXCEPT
                     !.children = [i \in 1..n |-> 1 + i]]
            ELSE IF id <= 1 + n
            THEN FromShape(kids[id - 1], 1,
                           IF id - 1 \in nested THEN <<subId(id - 1)>> ELSE <<>>)
            ELSE FromShape(kids[owner(id)].sub[1], 1 + owner(id), <<>>)]

InitRoundTrip ==
    /\ \E kids \in ChildLists :
          /\ objs = BuildTree(kids)
          /\ nextId = Len(BuildTree(kids)) + 1
    /\ idToPathMap = <<>>
    /\ disk = [p \in {BaseDir} |-> EmptyDir]
    /\ home = <<>>
    /\ currentCollection = 1
    /\ inflight = [save |-> NoCall, move |-> NoCall]
    /\ budget = MaxSteps
    /\ last = [call |-> Call("init", NoId, NoId, NoId, <<>>, NoText), ok |-> TRUE,
               err |-> "", ret |-> NoId, out |-> <<>>,
               pre |-> [objs |-> objs, idToPathMap |-> <<>>,
                        disk |-> [p \in {BaseDir} |-> EmptyDir], home |-> <<>>],
               clean |-> TRUE]

RoundTripSave ==
    /\ last.call.op = "init"
    /\ Commit(saveRecursive(Cur, currentCollection),
              Call("saveRecursive", currentCollection, NoId, NoId, <<>>, NoText))
    /\ UNCHANGED currentCollection

RoundTripLoad ==
    /\ last.call.op = "saveRecursive" /\ last.ok
    /\ ChangeCollection

NextRoundTrip ==
    \/ RoundTripSave
    \/ RoundTripLoad

SpecRoundTrip == InitRoundTrip /\ [][NextRoundTrip]_vars

(***************************************************************************)
(* Start-up on a collection directory left by earlier runs or by other     *)
(* programs: every sub-directory holds any of the info files.              *)
(***************************************************************************)
ChildInfoFileNames == {"folder.json", "~folder.json", "request.json", "~request.json"}

\* what an info file left on disk holds: a draft file differs from the
\* canonical file
StoredInfo(name) ==
    [title |-> IF name \in {"~folder.json", "~request.json", "~collection.json"}
               THEN <<"b">> ELSE <<"a">>,
     data |-> IF name \in {"~folder.json", "~request.json", "~collection.json"}
              THEN 1 ELSE 0,
     bodyType |-> IF name \in {"request.json", "~request.json"} THEN "text" ELSE "none"]

StoredDir(names) == [info |-> [n \in names |-> StoredInfo(n)], body |-> <<>>]

\* the directories below the collection's directory
StoredPaths ==
    { Append(COLLECTION_DIR, <<"a">>), Append(COLLECTION_DIR, <<"b">>),
      Append(Append(COLLECTION_DIR, <<"a">>), <<"a">>) }

\* the collection's directory holds collection.json, with or without a
\* draft next to it; files maps each directory below it to its info files
StoredDisk(draft, files) ==
    [p \in {BaseDir, COLLECTION_DIR} \cup DOMAIN files |->
        IF p = BaseDir THEN EmptyDir
        ELSE IF p = COLLECTION_DIR
        THEN StoredDir(IF draft THEN {"collection.json", "~collection.json"}
                       ELSE {"collection.json"})
        ELSE StoredDir(files[p])]

InitLoad ==
    /\ objs = <<>>
    /\ idToPathMap = <<>>
    /\ \E draft \in BOOLEAN :
          \E P \in {Q \in SUBSET StoredPaths :
                       \A q \in Q : pathDirname(q) \in Q \cup {COLLECTION_DIR}} :
             \E files \in [P -> SUBSET ChildInfoFileNames] :
                disk = StoredDisk(draft, files)
    /\ home = <<>>
    /\ nextId = 1
    /\ currentCollection = NoId
    /\ inflight = [save |-> NoCall, move |-> NoCall]
    /\ budget = MaxSteps
    /\ last = [call |-> Call("init", NoId, NoId, NoId, <<>>, NoText), ok |-> TRUE,
               err |-> "", ret |-> NoId, out |-> <<>>,
               pre |-> [objs |-> <<>>, idToPathMap |-> <<>>, disk |-> disk, home |-> <<>>],
               clean |-> TRUE]

NextLoad ==
    \/ LoadDefaultCollection
    \/ ChangeCollection

SpecLoad == InitLoad /\ [][NextLoad]_vars

(***************************************************************************)
(* The text body of the requests of the tree: edited, saved, committed,    *)
(* discarded and read back.                                                *)
(***************************************************************************)
LoadTextBodyOfRequest ==
    \E r \in Requests :
       /\ Commit(loadTextBodyOfRequest(Cur, r),
                 Call("loadTextBodyOfRequest", r, NoId, NoId, <<>>, NoText))
       /\ UNCHANGED currentCollection

NextBody ==
    \/ LoadDefaultCollection
    \/ EditRequest
    \/ SaveRequest
    \/ SaveChanges
    \/ DiscardChanges
    \/ LoadTextBodyOfRequest

SpecBody == InitNew /\ [][NextBody]_vars

(***************************************************************************)
(* sanitizeTitle on its own: titles over lower and upper case letters, a   *)
(* digit, whitespace, the hyphen and punctuation; the function is applied  *)
(* to the title, then to its own result.                                   *)
(***************************************************************************)
TitleChars == {"a", "A", "B", "0", " ", "-", "!"}

TitlesUpTo(n) == UNION {[1..k -> TitleChars] : k \in 0..n}

InitSanitize ==
    /\ objs = <<>>
    /\ idToPathMap = <<>>
    /\ disk = [p \in {BaseDir} |-> EmptyDir]
    /\ home = <<>>
    /\ nextId = 1
    /\ currentCollection = NoId
    /\ inflight = [save |-> NoCall, move |-> NoCall]
    /\ budget = MaxApplications
    /\ \E t \in TitlesUpTo(MaxTitleLen) :
          last = [call |-> Call("init", NoId, NoId, NoId, t, NoText), ok |-> TRUE,
                  err |-> "", ret |-> NoId, out |-> <<>>,
                  pre |-> [objs |-> <<>>, idToPathMap |-> <<>>,
                           disk |-> [p \in {BaseDir} |-> EmptyDir], home |-> <<>>],
                  clean |-> TRUE]

SanitizeTitle ==
    LET title == IF last.call.op = "init" THEN last.call.title ELSE last.out
    IN  /\ Commit([Cur EXCEPT !.out = sanitizeTitle(title)],
                  Call("sanitizeTitle", NoId, NoId, NoId, title, NoText))
        /\ UNCHANGED currentCollection

NextSanitize == SanitizeTitle

SpecSanitize == InitSanitize /\ [][NextSanitize]_vars

(***************************************************************************)
(* delete on a file system that may refuse to remove one directory.        *)
(***************************************************************************)
DeleteDenied ==
    \E o \in Tree :
       \E denied \in {{}} \cup {{p} : p \in DOMAIN disk \ {BaseDir}} :
          LET s == deleteDenied(Cur, o, denied) IN
          /\ Commit(IF Failed(s) THEN s ELSE Forget(s, o),
                    Call("delete", o, NoId, NoId, <<>>, NoText))
          /\ currentCollection' = IF ~Failed(s) /\ o = currentCollection THEN NoId
                                  ELSE currentCollection

NextDelete ==
    \/ LoadDefaultCollection
    \/ CreateObject
    \/ SaveRequest
    \/ SaveFolder
    \/ MoveChild
    \/ DeleteDenied

SpecDelete == Init /\ [][NextDelete]_vars

(***************************************************************************)
(* One saveRequest and one moveChild in flight together.  The event loop   *)
(* runs the code between two awaits without interruption, so a step is the *)
(* code that follows an await together with the file-system call it makes  *)
(* next; steps of the two calls interleave freely.  A frame holds the      *)
(* locals of a call: pc names the file-system call it waits for, "done"    *)
(* when it has returned or thrown (err).  overlap tells that the other     *)
(* call was in flight when this one started.                               *)
(***************************************************************************)
InFlight(f) == f.pc \notin {"none", "done"}

\* the state after a step: no call has returned to an action of the caller
Resume(s) ==
    /\ objs' = s.objs
    /\ idToPathMap' = s.idToPathMap
    /\ disk' = s.disk
    /\ home' = s.home
    /\ UNCHANGED <<nextId, currentCollection, last, budget>>

\* saveRequest, lines 102-103, and saveInfoFile up to await exists(dirPath)
SaveRequestStart ==
    /\ currentCollection # NoId
    /\ inflight.save = NoCall
    /\ \E r \in Requests, textBody \in {NoText, "x"} :
          LET o == objs[r]
              dirPath == getDirPath(Cur, r)
              frame == [pc |-> "exists", id |-> r, dirPath |-> dirPath,
                        infoFileName |-> IF o.draft THEN DraftInfoFileName(o.type)
                                         ELSE InfoFileName(o.type),
                        fileName |-> IF o.draft THEN DRAFT_TEXT_BODY_FILE_NAME
                                     ELSE TEXT_BODY_FILE_NAME,
                        textBody |-> textBody,
                        existed |-> existsDir(disk, dirPath),
                        err |-> "", overlap |-> InFlight(inflight.move)]
          IN  /\ inflight' = [inflight EXCEPT !.save =
                     IF dirPath = NoPath
                     THEN [frame EXCEPT !.pc = "done", !.err = "TypeError"]
                     ELSE IF o.parentId = NoId
                     THEN [frame EXCEPT !.pc = "done", !.err = "Object must have a parent"]
                     ELSE frame]
              /\ Resume(Cur)

\* saveInfoFile: exists(dirPath) was false, await fs.mkdir(dirPath)
SaveRequestMkdir ==
    LET f == inflight.save IN
    /\ f.pc = "exists" /\ ~f.existed
    /\ IF mkdirOk(disk, f.dirPath)
       THEN /\ Resume([Cur EXCEPT !.disk = mkdir(@, f.dirPath)])
            /\ inflight' = [inflight EXCEPT !.save.pc = "mkdir"]
       ELSE /\ Resume(Cur)
            /\ inflight' = [inflight EXCEPT !.save.pc = "done", !.save.err = "mkdir"]

\* saveInfoFile: toInfoFile(object) and await fs.writeFile(infoFilePath)
SaveRequestWriteInfo ==
    LET f == inflight.save IN
    /\ \/ f.pc = "exists" /\ f.existed
       \/ f.pc = "mkdir"
    /\ IF existsDir(disk, f.dirPath)
       THEN /\ Resume([Cur EXCEPT
                          !.disk = writeInfo(@, f.dirPath, f.infoFileName, toInfoFile(objs[f.id])),
                          !.home = Put(@, f.id, f.dirPath)])
            /\ inflight' = [inflight EXCEPT !.save.pc = "writeInfo"]
       ELSE /\ Resume(Cur)
            /\ inflight' = [inflight EXCEPT !.save.pc = "done", !.save.err = "ENOENT"]

\* saveInfoFile: idToPathMap.set(object.id, dirPath); saveRequest: the text
\* body is written, or exists(body.txt) is asked
SaveRequestBody ==
    LET f == inflight.save
        s1 == [Cur EXCEPT !.idToPathMap = Put(@, f.id, f.dirPath)]
        s2 == [s1 EXCEPT !.objs[f.id].bodyType = "text", !.objs[f.id].text = NoText]
    IN
    /\ f.pc = "writeInfo"
    /\ IF f.textBody = NoText
       THEN /\ Resume(s1)
            /\ inflight' = [inflight EXCEPT !.save.pc = "existsBody",
                   !.save.existed = existsBody(disk, f.dirPath, TEXT_BODY_FILE_NAME)]
       ELSE IF existsDir(disk, f.dirPath)
       THEN /\ Resume([s2 EXCEPT !.disk = writeBody(@, f.dirPath, f.fileName, f.textBody)])
            /\ inflight' = [inflight EXCEPT !.save.pc = "done"]
       ELSE /\ Resume(s2)
            /\ inflight' = [inflight EXCEPT !.save.pc = "done", !.save.err = "ENOENT"]

\* saveRequest: await fs.unlink(body.txt) when exists(body.txt) was true
SaveRequestUnlink ==
    LET f == inflight.save IN
    /\ f.pc = "existsBody"
    /\ IF ~f.existed
       THEN /\ Resume(Cur)
            /\ inflight' = [inflight EXCEPT !.save.pc = "done"]
       ELSE IF existsBody(disk, f.dirPath, TEXT_BODY_FILE_NAME)
       THEN /\ Resume([Cur EXCEPT !.disk = unlinkBody(@, f.dirPath, TEXT_BODY_FILE_NAME)])
            /\ inflight' = [inflight EXCEPT !.save.pc = "done"]
       ELSE /\ Resume(Cur)
            /\ inflight' = [inflight EXCEPT !.save.pc = "done", !.save.err = "ENOENT"]

\* moveChild, lines 61-67: the paths, the child lists, await fs.rename
MoveChildStart ==
    /\ currentCollection # NoId
    /\ inflight.move = NoCall
    /\ \E oldParent \in Parents, newParent \in Parents :
       \E i \in 1..Len(objs[oldParent].children) :
          LET child == objs[oldParent].children[i]
              childDirName == getDirName(objs[child])
              oldChildDirPath == getDirPath(Cur, child)
              newParentDirPath == getDirPath(Cur, newParent)
              newChildDirPath == pathJoin(newParentDirPath, childDirName)
              filtered == [objs EXCEPT ![oldParent].children = SelectSeq(@, LAMBDA c : c # child)]
              pushed == [filtered EXCEPT ![newParent].children = Append(@, child)]
              frame == [pc |-> "rename", id |-> child, from |-> oldParent, to |-> newParent,
                        oldChildDirPath |-> oldChildDirPath,
                        newParentDirPath |-> newParentDirPath,
                        newChildDirPath |-> newChildDirPath,
                        err |-> "", overlap |-> InFlight(inflight.save)]
          IN  /\ newParent \notin Subtree(objs, child)
              /\ IF oldChildDirPath = NoPath \/ newParentDirPath = NoPath
                 THEN /\ Resume(Cur)
                      /\ inflight' = [inflight EXCEPT !.move =
                             [frame EXCEPT !.pc = "done", !.err = "TypeError"]]
                 ELSE IF ~renameOk(disk, oldChildDirPath, newChildDirPath)
                 THEN /\ Resume([Cur EXCEPT !.objs = pushed])
                      /\ inflight' = [inflight EXCEPT !.move =
                             [frame EXCEPT !.pc = "done", !.err = "rename"]]
                 ELSE /\ Resume([Cur EXCEPT
                             !.objs = pushed,
                             !.disk = renameDir(@, oldChildDirPath, newChildDirPath),
                             !.home = moveHome(@, oldChildDirPath, newChildDirPath)])
                      /\ inflight' = [inflight EXCEPT !.move = frame]

\* moveChild, line 69: the path index of the moved subtree
MoveChildUpdate ==
    LET f == inflight.move
        s == updatePathMapRecursively(Cur, f.id, f.newParentDirPath)
    IN
    /\ f.pc = "rename"
    /\ Resume(s)
    /\ inflight' = [inflight EXCEPT !.move.pc = "done", !.move.err = s.err]

NextRace ==
    \/ LoadDefaultCollection
    \/ SaveRequestStart
    \/ SaveRequestMkdir
    \/ SaveRequestWriteInfo
    \/ SaveRequestBody
    \/ SaveRequestUnlink
    \/ MoveChildStart
    \/ MoveChildUpdate

SpecRace == Init /\ [][NextRace]_vars

(***************************************************************************)
(* Objects without a parent: the caller creates an object that it has not  *)
(* attached to a parent, or clears the parent of an object of the tree.    *)
(***************************************************************************)
CreateOrphan ==
    /\ currentCollection # NoId
    /\ nextId <= MaxIds
    /\ \E type \in {"folder", "request"}, title \in Titles :
          /\ Commit([Cur EXCEPT !.objs = Put(@, nextId, NewObject(type, title, NoId)),
                                !.nextId = @ + 1, !.ret = nextId],
                    Call("create", nextId, NoId, NoId, title, NoText))
          /\ UNCHANGED currentCollection

Detach ==
    \E o \in Tree \ {currentCollection} :
       /\ objs[o].parentId # NoId
       /\ Commit([Cur EXCEPT !.objs[o].parentId = NoId, !.ret = o],
                 Call("detach", o, NoId, NoId, <<>>, NoText))
       /\ UNCHANGED currentCollection

NextOrphan ==
    \/ LoadDefaultCollection
    \/ CreateOrphan
    \/ Detach
    \/ SaveRequest
    \/ SaveFolder

SpecOrphan == Init /\ [][NextOrphan]_vars

(***************************************************************************)
(* Vocabulary of the properties.                                           *)
(***************************************************************************)
Pre == last.pre

PreState == [objs |-> Pre.objs, idToPathMap |-> Pre.idToPathMap, disk |-> Pre.disk,
             home |-> Pre.home, nextId |-> nextId, err |-> "", ret |-> NoId, list |-> <<>>,
             out |-> <<>>]

\* the last operation was op and it completed
Completed(op) == last.call.op = op /\ last.ok

\* an object that has been written to or read from disk
Persisted(o) == o \in DOMAIN home \/ o \in DOMAIN idToPathMap

\* the directory the object's info file is in holds an info file of its type
HoldsInfoFile(d, p, type) ==
    existsInfo(d, p, InfoFileName(type)) \/ existsInfo(d, p, DraftInfoFileName(type))

(***************************************************************************)
(* C1: after any sequence of completed operations, the path resolved for   *)
(* every persisted object of the tree (its idToPathMap entry, dirPath for  *)
(* the collection) is the directory on disk that holds its info file.      *)
(***************************************************************************)
C1_PathIndexMatchesDisk ==
    last.clean =>
        \A o \in Tree :
            Persisted(o) =>
                /\ o \in DOMAIN home
                /\ getDirPath(Cur, o) = home[o]
                /\ HoldsInfoFile(disk, home[o], objs[o].type)

(***************************************************************************)
(* C2: when rename(object, newTitle) completes, the object's directory is  *)
(* <parent directory>/sanitize(newTitle), the old directory is gone when   *)
(* the names differ, the title is newTitle and the idToPathMap entry is    *)
(* the new directory.                                                      *)
(***************************************************************************)
C2_RenameMovesDirectory ==
    Completed("rename") =>
        LET o == last.call.id
            oldDirPath == Pre.home[o]
            newDirPath == pathJoin(pathDirname(oldDirPath), sanitizeTitle(last.call.title))
        IN  o \in DOMAIN Pre.home =>
                /\ home[o] = newDirPath
                /\ existsDir(disk, newDirPath)
                /\ newDirPath # oldDirPath => ~existsDir(disk, oldDirPath)
                /\ objs[o].title = last.call.title
                /\ o \in DOMAIN idToPathMap /\ idToPathMap[o] = newDirPath

\* the contents of a file as a sequence: empty when the file does not exist
InfoAt(d, p, name) == IF existsInfo(d, p, name) THEN <<d[p].info[name]>> ELSE <<>>

BodyAt(d, p, name) == IF existsBody(d, p, name) THEN <<d[p].body[name]>> ELSE <<>>

\* the object of the last call and the directory it resolved to before the call
Target == last.call.id

TargetDir == getDirPath(PreState, Target)

TargetWasRequest == Target \in DOMAIN Pre.objs /\ isRequest(Pre.objs[Target])

\* every directory but p is as it was before the last call
OtherDirsUnchanged(p) ==
    \A q \in (DOMAIN disk) \cup (DOMAIN Pre.disk) :
        q # p => q \in DOMAIN disk /\ q \in DOMAIN Pre.disk /\ disk[q] = Pre.disk[q]

\* the directory that held the target's info file before the call, followed
\* through a rename of that directory by the call
TrackedDir == IF last.call.op \in {"rename", "moveChild"} THEN home[Target] ELSE Pre.home[Target]

\* a saveRequest of a draft writes ~request.json and no other info file
C3_DraftSaveWritesDraftFile ==
    (Completed("saveRequest") /\ Pre.objs[Target].draft) =>
        /\ InfoAt(disk, TargetDir, "~request.json") = <<toInfoFile(Pre.objs[Target])>>
        /\ \A name \in {"request.json", "folder.json", "collection.json"} :
              InfoAt(disk, TargetDir, name) = InfoAt(Pre.disk, TargetDir, name)
        /\ OtherDirsUnchanged(TargetDir)

\* no operation on a request but saveChanges, a saveRequest with draft = false
\* and its deletion changes the contents of its request.json
C3_CanonicalChangesOnlyOnCommit ==
    ( /\ TargetWasRequest
      /\ Target \in DOMAIN Pre.home
      /\ \/ last.call.op \in {"edit", "rename", "moveChild", "discardChanges"}
         \/ last.call.op = "saveRequest" /\ Pre.objs[Target].draft ) =>
        /\ Target \in DOMAIN home
        /\ InfoAt(disk, TrackedDir, "request.json")
              = InfoAt(Pre.disk, Pre.home[Target], "request.json")

(***************************************************************************)
(* C3: draft isolation.  A saveRequest of a request whose draft flag is    *)
(* true writes ~request.json and leaves every other info file, request.json*)
(* included, as it was; and the contents of request.json change in no      *)
(* operation on the request other than saveChanges, a saveRequest with     *)
(* draft = false, or its deletion.                                         *)
(***************************************************************************)
C3_DraftIsolation == C3_DraftSaveWritesDraftFile /\ C3_CanonicalChangesOnlyOnCommit

\* a draft was saved next to a committed request.json of other contents
C3_Witness ==
    /\ Completed("saveRequest")
    /\ Pre.objs[Target].draft
    /\ InfoAt(Pre.disk, TargetDir, "request.json") # <<>>
    /\ InfoAt(Pre.disk, TargetDir, "request.json") # <<toInfoFile(Pre.objs[Target])>>

C5_DiscardReturnsCommitted ==
    ( /\ Completed("discardChanges")
      /\ existsInfo(Pre.disk, TargetDir, "~request.json")
      /\ existsInfo(Pre.disk, TargetDir, "request.json") ) =>
        /\ ~existsInfo(disk, TargetDir, "~request.json")
        /\ ~existsBody(disk, TargetDir, "~body.txt")
        /\ InfoAt(disk, TargetDir, "request.json") = InfoAt(Pre.disk, TargetDir, "request.json")
        /\ last.ret \in DOMAIN objs
        /\ isRequest(objs[last.ret])
        /\ objs[last.ret].draft = FALSE
        /\ <<toInfoFile(objs[last.ret])>> = InfoAt(Pre.disk, TargetDir, "request.json")

(***************************************************************************)
(* C6: when moveChild(child, oldParent, newParent) completes, oldParent's  *)
(* children no longer hold child, newParent's children hold it once, last, *)
(* the child's directory is under newParent's directory and no longer      *)
(* where it was, and the idToPathMap entry of the child and of each of its *)
(* descendants is the directory that object now lives in.  Child and       *)
(* parents are objects that were saved, the two parents different objects. *)
(***************************************************************************)
C6_MoveChildTransplants ==
    ( /\ Completed("moveChild")
      /\ last.call.from # last.call.to
      /\ Target \in DOMAIN Pre.home
      /\ last.call.to \in DOMAIN Pre.home ) =>
        LET child == Target
            to == last.call.to
            kids == objs[to].children
        IN  /\ \A i \in 1..Len(objs[last.call.from].children) :
                  objs[last.call.from].children[i] # child
            /\ kids = Append(Pre.objs[to].children, child)
            /\ \A o \in Subtree(objs, child) :
                  o \in DOMAIN Pre.home =>
                      /\ o \in DOMAIN home /\ existsDir(disk, home[o])
                      /\ o \in DOMAIN idToPathMap /\ idToPathMap[o] = home[o]
            /\ child \in DOMAIN Pre.home =>
                  /\ pathDirname(home[child]) = getDirPath(Cur, to)
                  /\ ~existsDir(disk, Pre.home[child])

(***************************************************************************)
(* C7: when delete(object) completes, the directory of the object and of   *)
(* every object of its subtree no longer exists, and idToPathMap has no    *)
(* entry for any of them.                                                  *)
(***************************************************************************)
C7_DeleteRemovesSubtree ==
    Completed("delete") =>
        \A o \in Subtree(Pre.objs, Target) :
            /\ o \notin DOMAIN idToPathMap
            /\ o \in DOMAIN Pre.home => ~existsDir(disk, Pre.home[o])

(***************************************************************************)
(* C9: saveRequest on a request whose draft flag is true leaves body.txt   *)
(* as it was and writes a supplied text to ~body.txt; body.txt is deleted  *)
(* only when no text is supplied and the draft flag is false.              *)
(***************************************************************************)
C9_DraftSaveKeepsCanonicalBody ==
    Completed("saveRequest") =>
        /\ Pre.objs[Target].draft =>
              /\ BodyAt(disk, TargetDir, "body.txt") = BodyAt(Pre.disk, TargetDir, "body.txt")
              /\ last.call.text # NoText =>
                    BodyAt(disk, TargetDir, "~body.txt") = <<last.call.text>>
        /\ (existsBody(Pre.disk, TargetDir, "body.txt") /\ ~existsBody(disk, TargetDir, "body.txt")) =>
              (last.call.text = NoText /\ ~Pre.objs[Target].draft)

\* saveChanges or discardChanges completed on a request without ~request.json
NoDraftCall ==
    /\ Completed("saveChanges") \/ Completed("discardChanges")
    /\ ~existsInfo(Pre.disk, TargetDir, "~request.json")

(***************************************************************************)
(* C10 as claimed: saveChanges and discardChanges on a request whose       *)
(* directory holds no ~request.json change no file and no idToPathMap      *)
(* entry and return the same object with every field, the draft flag       *)
(* included, as it was.                                                    *)
(***************************************************************************)
C10_NoDraftIsNoOp ==
    NoDraftCall =>
        /\ disk = Pre.disk
        /\ idToPathMap = Pre.idToPathMap
        /\ last.ret = Target
        /\ objs = Pre.objs

(***************************************************************************)
(* C10 as amended: they change no file and no idToPathMap entry and return *)
(* the same object with every field but the draft flag as it was; the      *)
(* draft flag is false afterwards.                                         *)
(***************************************************************************)
C10_NoDraftOnlyClearsFlag ==
    NoDraftCall =>
        /\ disk = Pre.disk
        /\ idToPathMap = Pre.idToPathMap
        /\ last.ret = Target
        /\ objs = [Pre.objs EXCEPT ![Target].draft = FALSE]

\* a request edited in memory, never saved as a draft, was committed or discarded
C10_Witness ==
    /\ NoDraftCall
    /\ Pre.objs[Target].draft
    /\ existsInfo(Pre.disk, TargetDir, "request.json")

RECURSIVE Shape(_, _)

\* an object without its identifiers: type, persistable fields and the bag
\* of the shapes of its children
Shape(os, id) ==
    LET kids == os[id].children
        shapes == {Shape(os, kids[i]) : i \in 1..Len(kids)}
    IN  [type |-> os[id].type,
         info |-> toInfoFile(os[id]),
         children |-> [x \in shapes |->
                          Cardinality({i \in 1..Len(kids) : Shape(os, kids[i]) = x})]]

(***************************************************************************)
(* C8: round trip.  loadCollection after saveRecursive(X) returns a tree   *)
(* with the same folders and requests under the same parents, each with    *)
(* the title and persistable fields it has in X.                           *)
(***************************************************************************)
C8_RoundTrip ==
    Completed("loadCollection") => Shape(objs, last.ret) = Shape(Pre.objs, 1)

\* the requests the last operation was about: its argument, the object it
\* returned, the requests of the tree a load returned
Operated ==
    LET named == IF last.call.op \in {"saveRequest", "saveChanges", "discardChanges"}
                 THEN {Target, last.ret} ELSE {}
        loaded == IF last.call.op \in {"loadCollection", "loadDefaultCollection"}
                     /\ last.ret \in DOMAIN objs
                  THEN Subtree(objs, last.ret) ELSE {}
    IN  {r \in (named \cup loaded) \cap DOMAIN objs : isRequest(objs[r])}

\* the directories that may hold files of an object: the one resolved for it
\* and the one its info file lives in
DirsOf(r) ==
    {getDirPath(Cur, r)} \cup (IF r \in DOMAIN home THEN {home[r]} ELSE {})

(***************************************************************************)
(* C11: after each completed load, saveRequest, saveChanges and            *)
(* discardChanges the draft flag of the request is true exactly when       *)
(* ~request.json exists in its directory, and the request has at most one  *)
(* draft info file.                                                        *)
(***************************************************************************)
C11_DraftFlagMatchesDisk ==
    last.ok =>
        \A r \in Operated :
            /\ objs[r].draft <=> existsInfo(disk, getDirPath(Cur, r), "~request.json")
            /\ Cardinality({p \in DirsOf(r) : existsInfo(disk, p, "~request.json")}) <= 1


\* the last operation loaded the collection from its directory
LoadCall ==
    /\ last.call.op \in {"loadDefaultCollection", "loadCollection"}
    /\ existsInfo(Pre.disk, COLLECTION_DIR, "collection.json")

\* the directories below the collection's directory without any info file
UntypedDirs(d) ==
    {q \in DOMAIN d : /\ IsPrefix(COLLECTION_DIR, q) /\ q # COLLECTION_DIR
                      /\ DOMAIN d[q].info \cap ChildInfoFileNames = {}}

\* the objects of the tree the last operation returned
Returned == IF last.ok /\ last.ret \in DOMAIN objs THEN Subtree(objs, last.ret) ELSE {}

(***************************************************************************)
(* C12: loading a collection skips every sub-directory that holds none of  *)
(* folder.json, ~folder.json, request.json, ~request.json: the load        *)
(* completes and the returned tree has no object for that directory.       *)
(***************************************************************************)
C12_LoadSkipsUntypedDirs ==
    (LoadCall /\ UntypedDirs(Pre.disk) # {}) =>
        /\ last.ok
        /\ \A o \in Returned : home[o] \notin UntypedDirs(Pre.disk)

\* the directories right below the collection's directory that hold info
\* files of a folder and of a request
AmbiguousDirs(d) ==
    {q \in DOMAIN d : /\ pathDirname(q) = COLLECTION_DIR
                      /\ DOMAIN d[q].info \cap {"folder.json", "~folder.json"} # {}
                      /\ DOMAIN d[q].info \cap {"request.json", "~request.json"} # {}}

(***************************************************************************)
(* C13: loading a directory that holds info files of more than one type    *)
(* fails with an AmbiguousType error and returns no object for it.         *)
(***************************************************************************)
C13_AmbiguousTypeFails ==
    (LoadCall /\ AmbiguousDirs(Pre.disk) # {}) =>
        /\ ~last.ok
        /\ last.err = "AmbiguousType"

\* saveRequest or saveFolder was called on an object without a parent
OrphanSave ==
    /\ last.call.op \in {"saveRequest", "saveFolder"}
    /\ Pre.objs[Target].parentId = NoId

(***************************************************************************)
(* C14: saveRequest and saveFolder on an object whose parentId is null     *)
(* fail with 'Object must have a parent', with or without an idToPathMap   *)
(* entry for the object, and create no directory, write no file and change *)
(* no idToPathMap entry.                                                   *)
(***************************************************************************)
C14_OrphanSaveFails ==
    OrphanSave =>
        /\ ~last.ok
        /\ last.err = "Object must have a parent"
        /\ disk = Pre.disk
        /\ idToPathMap = Pre.idToPathMap

\* the body file loadTextBodyOfRequest reads for the target: by the draft flag
\* it had before the call
BodyFileOf(o) == IF o.draft THEN DRAFT_TEXT_BODY_FILE_NAME ELSE TEXT_BODY_FILE_NAME

\* right after saveRequest(request, text), loadTextBodyOfRequest(request)
\* yields text, and the inline text is cleared
C15_SaveThenLoad ==
    (Completed("saveRequest") /\ last.call.text # NoText) =>
        /\ objs[Target].text = NoText
        /\ objs[Target].bodyType = "text"
        /\ ~Failed(loadTextBodyOfRequest(Cur, Target))
        /\ loadTextBodyOfRequest(Cur, Target).out = <<last.call.text>>

\* what loadTextBodyOfRequest returns for a request with a text body: the
\* inline text when there is one, else the body file of its draft state,
\* else nothing; it changes nothing
C15_LoadReturns ==
    ( /\ Completed("loadTextBodyOfRequest")
      /\ Pre.objs[Target].bodyType = "text" ) =>
        /\ last.out = IF Pre.objs[Target].text # NoText THEN <<Pre.objs[Target].text>>
                      ELSE BodyAt(Pre.disk, TargetDir, BodyFileOf(Pre.objs[Target]))
        /\ disk = Pre.disk /\ objs = Pre.objs /\ idToPathMap = Pre.idToPathMap

(***************************************************************************)
(* C15: text body round trip.  For a request with a text body and either   *)
(* value of its draft flag, saveRequest(request, text) followed by         *)
(* loadTextBodyOfRequest(request) yields text and the save clears the      *)
(* inline text; loadTextBodyOfRequest returns the inline text when there   *)
(* is one, whatever is on disk, and nothing when there is neither an       *)
(* inline text nor a body file of the request's draft state.               *)
(***************************************************************************)
C15_TextBodyRoundTrip == C15_SaveThenLoad /\ C15_LoadReturns

\* a text saved for a draft request was read back from ~body.txt while
\* body.txt holds another text
C15_Witness ==
    /\ Completed("loadTextBodyOfRequest")
    /\ Pre.objs[Target].draft
    /\ Pre.objs[Target].text = NoText
    /\ last.out = <<"y">>
    /\ BodyAt(Pre.disk, TargetDir, TEXT_BODY_FILE_NAME) = <<"x">>

\* the characters of a sequence
Chars(t) == {t[i] : i \in 1..Len(t)}

\* the characters of a title that are no letter, digit, whitespace or hyphen
Punctuation == {"!"}

(***************************************************************************)
(* C16: for every title t over lower and upper case, digits, whitespace,   *)
(* hyphen and punctuation, sanitize(sanitize(t)) = sanitize(t) and         *)
(* sanitize(t) holds only characters of [a-z0-9-]; an empty title and a    *)
(* title of stripped characters only yield the empty string.               *)
(***************************************************************************)
C16_SanitizeIdempotent ==
    last.call.op = "sanitizeTitle" =>
        /\ last.out = sanitizeTitle(last.call.title)
        /\ sanitizeTitle(last.out) = last.out
        /\ Chars(last.out) \subseteq AllowedChars
        /\ Chars(last.call.title) \subseteq Punctuation => last.out = <<>>

\* a title was sanitized and its result, a letter and a hyphen, sanitized
\* again
C16_Witness ==
    /\ last.call.op = "sanitizeTitle"
    /\ budget = MaxApplications - 2
    /\ last.call.title = <<"a", "-">>
    /\ last.out = last.call.title

\* the objects below the target of the last call
Descendants == Subtree(objs, Target) \ {Target}

(***************************************************************************)
(* C17: when rename of a Folder or Collection with descendants completes,  *)
(* every descendant's Path Index entry is the renamed object's newly       *)
(* recorded path followed by the descendant's previous path relative to    *)
(* the renamed object: only the prefix changes, no descendant's directory  *)
(* name changes, at every depth.                                           *)
(***************************************************************************)
C17_RenameRebasesDescendants ==
    (Completed("rename") /\ ~isRequest(objs[Target]) /\ Descendants # {}) =>
        \A d \in Descendants :
            /\ Has(Pre.idToPathMap, d) /\ Has(idToPathMap, d)
            /\ IsPrefix(TargetDir, Pre.idToPathMap[d])
            /\ idToPathMap[d] = Rebase(Pre.idToPathMap[d], TargetDir, idToPathMap[Target])
            /\ pathBasename(idToPathMap[d]) = pathBasename(Pre.idToPathMap[d])

\* the directory an object of the returned tree was loaded from has both
\* info files of the object's type
HasBothInfoFiles(o) ==
    /\ existsInfo(Pre.disk, idToPathMap[o], InfoFileName(objs[o].type))
    /\ existsInfo(Pre.disk, idToPathMap[o], DraftInfoFileName(objs[o].type))

(***************************************************************************)
(* C18: draft wins on load.  An object loaded from a directory holding     *)
(* both {type}.json and ~{type}.json has the fields of the draft file, not *)
(* of the canonical file; a loaded request has its draft flag set exactly  *)
(* when ~request.json exists; loading changes no file on disk.             *)
(***************************************************************************)
C18_DraftWinsOnLoad ==
    LoadCall =>
        /\ disk = Pre.disk
        /\ \A o \in Returned :
              /\ HasBothInfoFiles(o) =>
                    /\ toInfoFile(objs[o]) =
                           Pre.disk[idToPathMap[o]].info[DraftInfoFileName(objs[o].type)]
                    /\ toInfoFile(objs[o]) #
                           Pre.disk[idToPathMap[o]].info[InfoFileName(objs[o].type)]
              /\ isRequest(objs[o]) =>
                    (objs[o].draft <=> existsInfo(Pre.disk, idToPathMap[o], "~request.json"))

\* a load returned a collection, a folder and a request that each have both
\* info files, and a request without a draft file
C18_Witness ==
    /\ LoadCall /\ last.ok
    /\ \E c, f, r, q \in Returned :
          /\ isCollection(objs[c]) /\ HasBothInfoFiles(c)
          /\ isFolder(objs[f]) /\ HasBothInfoFiles(f)
          /\ isRequest(objs[r]) /\ HasBothInfoFiles(r) /\ objs[r].draft
          /\ isRequest(objs[q]) /\ ~objs[q].draft

RECURSIVE PostOrder(_, _)

\* the objects of the tree below id in the order delete removes them:
\* children first, in list order, then the object
PostOrder(os, id) ==
    LET kids == os[id].children
        sub[i \in 0..Len(kids)] == IF i = 0 THEN <<>> ELSE sub[i - 1] \o PostOrder(os, kids[i])
    IN  sub[Len(kids)] \o <<id>>

\* the last delete threw when fs.rm refused the directory of f, an object
\* below the one delete was called for
RemovalFailedAt(f) ==
    /\ last.call.op = "delete" /\ ~last.ok /\ last.err = "EPERM"
    /\ last.ret = f /\ f # Target

Ancestors(f) == {a \in Subtree(Pre.objs, Target) : a # f /\ f \in Subtree(Pre.objs, a)}

\* the objects delete was called for before it was called for f
DeletedEarlier(f) ==
    LET order == PostOrder(Pre.objs, Target)
        k == CHOOSE i \in 1..Len(order) : order[i] = f
    IN  {order[i] : i \in 1..(k - 1)}

\* the objects whose Path Index entry the last call removed
Cleared == (DOMAIN Pre.idToPathMap) \ (DOMAIN idToPathMap)

\* the objects whose directory the last call removed
Removed == {o \in DOMAIN Pre.home : existsDir(Pre.disk, Pre.home[o]) /\ ~existsDir(disk, Pre.home[o])}

\* the ancestors of f keep directory and entry
C19_AncestorsKept(f) ==
    \A a \in Ancestors(f) :
        /\ a \in DOMAIN Pre.idToPathMap => a \in DOMAIN idToPathMap
        /\ a \in DOMAIN Pre.home /\ existsDir(Pre.disk, Pre.home[a]) => existsDir(disk, Pre.home[a])

\* the objects deleted before f have neither directory nor entry
C19_EarlierGone(f) ==
    \A o \in DeletedEarlier(f) :
        /\ o \notin DOMAIN idToPathMap
        /\ o \in DOMAIN Pre.home => ~existsDir(disk, Pre.home[o])

(***************************************************************************)
(* C19: when removing the directory of a descendant fails during           *)
(* delete(object), the error reaches the caller and nothing is rolled      *)
(* back: no ancestor of the failing descendant loses its directory or its  *)
(* Path Index entry, the descendants deleted earlier have neither, and the *)
(* entries cleared are exactly those of the objects whose directories were *)
(* removed.                                                                *)
(***************************************************************************)
C19_DeletePartialFailure ==
    \A f \in DOMAIN Pre.objs :
        RemovalFailedAt(f) =>
            /\ C19_AncestorsKept(f)
            /\ C19_EarlierGone(f)
            /\ Cleared = Removed

\* x is in the list
InList(list, x) == \E i \in 1..Len(list) : list[i] = x

\* moveChild has returned without an error
Moved == inflight.move.pc = "done" /\ inflight.move.err = ""

\* the moved request r is on B's child list and not on A's, its directory
\* with its info file is under B, and its Path Index entry names the
\* directory under A it was moved away from
StaleEntry ==
    /\ Moved
    /\ LET m == inflight.move IN
       /\ isRequest(objs[m.id])
       /\ m.from # m.to
       /\ InList(objs[m.to].children, m.id) /\ ~InList(objs[m.from].children, m.id)
       /\ existsInfo(disk, m.newChildDirPath, "request.json")
       /\ pathDirname(m.newChildDirPath) = getDirPath(Cur, m.to)
       /\ Has(idToPathMap, m.id)
       /\ idToPathMap[m.id] = m.oldChildDirPath
       /\ pathDirname(m.oldChildDirPath) = getDirPath(Cur, m.from)

(***************************************************************************)
(* C20: no locking protects an object.  A saveRequest(r) and a             *)
(* moveChild(r, A, B) that are in flight together and interleave at their  *)
(* file-system calls reach a state where r's Path Index entry names its    *)
(* old directory under A, which the save may have created again, while r's *)
(* directory and r's place in the child lists are under B.  Such a state   *)
(* is left behind only by a saveRequest(r) that overlapped the moveChild:  *)
(* calls that run one after the other never leave it.                      *)
(***************************************************************************)
C20_StaleEntryOnlyWhenInterleaved ==
    StaleEntry =>
        /\ inflight.save # NoCall
        /\ inflight.save.id = inflight.move.id
        /\ inflight.save.dirPath = inflight.move.oldChildDirPath
        /\ inflight.save.overlap \/ inflight.move.overlap

\* both calls have returned without an error, the entry of r is stale, and
\* the old directory under A exists again, with an info file of r
C20_Witness ==
    /\ StaleEntry
    /\ inflight.save.pc = "done" /\ inflight.save.err = ""
    /\ inflight.save.id = inflight.move.id
    /\ existsInfo(disk, inflight.move.oldChildDirPath, "request.json")

\* the info file a save of the object writes
SavedInfoFileName(o) ==
    IF isRequest(o) /\ o.draft THEN DraftInfoFileName(o.type) ELSE InfoFileName(o.type)

\* the last call saved, for the first time, an object whose directory is the
\* one recorded for its already saved sibling sib of another title
CollidingSave(sib) ==
    /\ last.call.op \in {"saveRequest", "saveFolder"}
    /\ Target \notin DOMAIN Pre.idToPathMap
    /\ sib \in DOMAIN Pre.idToPathMap /\ sib # Target
    /\ Pre.objs[sib].parentId = Pre.objs[Target].parentId
    /\ Pre.objs[sib].title # Pre.objs[Target].title
    /\ getDirName(Pre.objs[sib]) = getDirName(Pre.objs[Target])
    /\ Pre.idToPathMap[sib] = TargetDir
    /\ HoldsInfoFile(Pre.disk, TargetDir, Pre.objs[sib].type)

\* the info files of a type
InfoFileNames(type) == {InfoFileName(type), DraftInfoFileName(type)}

\* the two siblings are of one type and the first has, on disk, the info
\* file the save of the second writes
SameInfoFile(sib) ==
    /\ Pre.objs[sib].type = Pre.objs[Target].type
    /\ existsInfo(Pre.disk, TargetDir, SavedInfoFileName(Pre.objs[Target]))

(***************************************************************************)
(* C21 as stated: directory collisions are not guarded.  Saving a new      *)
(* sibling whose title differs from an already saved sibling's title but   *)
(* sanitizes to the same directory name completes without an error, leaves *)
(* both identifiers in the Path Index with the same directory path, and,   *)
(* for siblings of the same type, overwrites the first sibling's info      *)
(* file.                                                                   *)
(***************************************************************************)
C21_CollisionOverwritesInfoFile ==
    \A sib \in DOMAIN Pre.objs :
        CollidingSave(sib) =>
            /\ last.ok
            /\ Has(idToPathMap, Target) /\ Has(idToPathMap, sib)
            /\ idToPathMap[Target] = TargetDir /\ idToPathMap[sib] = TargetDir
            /\ Pre.objs[sib].type = Pre.objs[Target].type =>
                  \E name \in InfoFileNames(Pre.objs[sib].type) :
                     /\ existsInfo(Pre.disk, TargetDir, name)
                     /\ InfoAt(disk, TargetDir, name) = <<toInfoFile(objs[Target])>>

(***************************************************************************)
(* C21, with the draft flags taken into account: the save completes        *)
(* without an error and leaves both identifiers in the Path Index with the *)
(* same directory path; for siblings of one type the new sibling's fields  *)
(* replace the first sibling's info file of the name the save writes,      *)
(* ~request.json for a draft request and {type}.json for any other object, *)
(* and when the first sibling has no file of that name its info files stay *)
(* as they were.                                                           *)
(***************************************************************************)
C21_CollisionNotGuarded ==
    \A sib \in DOMAIN Pre.objs :
        CollidingSave(sib) =>
            /\ last.ok
            /\ Has(idToPathMap, Target) /\ Has(idToPathMap, sib)
            /\ idToPathMap[Target] = TargetDir /\ idToPathMap[sib] = TargetDir
            /\ InfoAt(disk, TargetDir, SavedInfoFileName(Pre.objs[Target])) =
                   <<toInfoFile(objs[Target])>>
            /\ SameInfoFile(sib) =>
                  InfoAt(disk, TargetDir, SavedInfoFileName(Pre.objs[Target])) #
                      <<toInfoFile(Pre.objs[sib])>>
            /\ \A name \in InfoFileNames(Pre.objs[sib].type) \ {SavedInfoFileName(Pre.objs[Target])} :
                  InfoAt(disk, TargetDir, name) = InfoAt(Pre.disk, TargetDir, name)

\* a new request titled "A!" was saved into the directory of its sibling
\* titled "a", whose request.json held the sibling's fields until then
C21_Witness ==
    \E sib \in DOMAIN Pre.objs :
        /\ CollidingSave(sib) /\ last.ok /\ SameInfoFile(sib)
        /\ isRequest(Pre.objs[sib])
        /\ Pre.objs[Target].title = <<"A", "!">>
        /\ InfoAt(Pre.disk, TargetDir, "request.json") = <<toInfoFile(Pre.objs[sib])>>
        /\ InfoAt(disk, TargetDir, "request.json") = <<toInfoFile(objs[Target])>>

(***************************************************************************)
(* C22: parent links.  After any sequence of completed operations every    *)
(* Folder or Request on some object's children list has that object's id   *)
(* as its parentId; after moveChild(child, oldParent, newParent) the       *)
(* child's parentId is newParent's id, and an object that discardChanges   *)
(* reloads after the move carries the id of the parent it is under.        *)
(***************************************************************************)
C22_ParentLink ==
    last.clean =>
        /\ \A p \in DOMAIN objs :
              \A i \in 1..Len(objs[p].children) :
                 /\ objs[p].children[i] \in DOMAIN objs
                 /\ objs[objs[p].children[i]].parentId = p
        /\ Completed("moveChild") => objs[Target].parentId = last.call.to
        /\ (Completed("discardChanges") /\ last.ret # Target) =>
              \A p \in DOMAIN Pre.objs :
                 InList(Pre.objs[p].children, Target) => objs[last.ret].parentId = p

(***************************************************************************)
(* C23: no stale Path Index entries.  After any sequence of operations,    *)
(* run one after the other and all completed without an error, every       *)
(* identifier of the Path Index maps to a directory that exists on disk    *)
(* and no two identifiers map to the same directory.                       *)
(***************************************************************************)
C23_NoStaleEntries ==
    last.clean =>
        \A i \in DOMAIN idToPathMap :
            /\ existsDir(disk, idToPathMap[i])
            /\ \A j \in DOMAIN idToPathMap : j # i => idToPathMap[j] # idToPathMap[i]

(***************************************************************************)
(* C24: draft body files never outlive the draft info file.  After any     *)
(* sequence of saveRequest, saveChanges and discardChanges calls that all  *)
(* completed without an error, a directory holds ~body.txt only if it      *)
(* holds ~request.json too.                                                *)
(***************************************************************************)
C24_DraftBodyNeedsDraftInfo ==
    last.clean =>
        \A p \in DOMAIN disk :
            existsBody(disk, p, DRAFT_TEXT_BODY_FILE_NAME) => existsInfo(disk, p, "~request.json")

\* a saveChanges or discardChanges found both draft files in the request's
\* directory and left neither
C24_Witness ==
    /\ last.clean
    /\ last.call.op \in {"saveChanges", "discardChanges"}
    /\ existsBody(Pre.disk, TargetDir, DRAFT_TEXT_BODY_FILE_NAME)
    /\ existsInfo(Pre.disk, TargetDir, "~request.json")
    /\ ~existsBody(disk, TargetDir, DRAFT_TEXT_BODY_FILE_NAME)
    /\ ~existsInfo(disk, TargetDir, "~request.json")

====
